---- MODULE Spec2Model ----
(***************************************************************************)
(* ATC check runs of sapcli (sap/adt/atc.py).                              *)
(*                                                                         *)
(* Two parts are modelled:                                                 *)
(*   - the bound object kinds declared in atc.py (RunRequest, ATCInfo,     *)
(*     RunResponse, WorkListObjectSet, ATCFinding, ATCObject, WorkList)    *)
(*     and the marshalling engine that serializes and deserializes them;   *)
(*   - ChecksRunner: the cached work list identifier (_get_id) and the     *)
(*     three requests of run_for.                                          *)
(*                                                                         *)
(* The binding tables and ChecksRunner follow atc.py.  The marshalling     *)
(* engine itself (sap.adt.marshalling, sap.adt.annotations,                *)
(* sap.adt.objects) is imported by atc.py; it is modelled from its         *)
(* written description (spec.md sections 4.3 to 4.5).                      *)
(***************************************************************************)
EXTENDS Integers, Sequences, FiniteSets, TLC

VARIABLES
    worklist_id,   \* ChecksRunner._worklist_id
    pc,            \* per caller: position inside _get_id / run_for
    op,            \* per caller: the operation it is executing
    callno,        \* per caller: number of the call it is executing
    resp,          \* per caller: resp.text of its last successful execute
    lid,           \* per caller: run_for's local worklist_id
    request,       \* per caller: run_for's serialized run request
    run_response,  \* per caller: run_for's deserialized run response
    log,           \* every request handed to connection.execute, in order
    done,          \* every finished call, in order of completion
    started,       \* the operation of every call, in order of start
    mphase,        \* marshalling scenario: position
    mkind,         \* marshalling scenario: kind of the instance
    mobj,          \* marshalling scenario: the instance that is serialized
    mdoc,          \* marshalling scenario: the document as serialized/received
    mfeed,         \* marshalling scenario: the document handed to the parser
    mpos,          \* marshalling scenario: tokens consumed by the parser
    mparser,       \* marshalling scenario: parser state (frame stack)
    morigin        \* marshalling scenario: where mdoc comes from

runnerVars == <<worklist_id, pc, op, callno, resp, lid, request, run_response, log, done,
                started>>
marshalVars == <<mphase, mkind, mobj, mdoc, mfeed, mpos, mparser, morigin>>
vars == <<worklist_id, pc, op, callno, resp, lid, request, run_response, log, done, started,
          mphase, mkind, mobj, mdoc, mfeed, mpos, mparser, morigin>>

(***************************************************************************)
(* Bounds of the model.                                                    *)
(***************************************************************************)
NCallers == 2      \* callers (threads) that may use one ChecksRunner
MaxCalls == 3      \* calls made on one ChecksRunner, one after the other
MaxOverlap == 2    \* calls made on one ChecksRunner when they may overlap
MaxPop == 2        \* fields populated on the instance that is serialized

(***************************************************************************)
(* Values held by the slots of a bound object instance.  Every value is a  *)
(* record of one shape; t tells which of its parts is meant.               *)
(***************************************************************************)
Unset == [t |-> "unset", s |-> "", n |-> 0, kind |-> "", slots |-> <<>>]
Str(x) == [t |-> "str", s |-> x, n |-> 0, kind |-> "", slots |-> <<>>]
Num(i) == [t |-> "num", s |-> "", n |-> i, kind |-> "", slots |-> <<>>]
\* an instance of `kind`: slots holds [field, val] in the order of assignment
Obj(kind, slots) == [t |-> "obj", s |-> "", n |-> 0, kind |-> kind, slots |-> slots]
\* a container of type `kind`: slots holds its items in order
List(kind, items) == [t |-> "list", s |-> "", n |-> 0, kind |-> kind, slots |-> items]

Slot(f, v) == [field |-> f, val |-> v]

HasField(inst, f) == \E i \in DOMAIN inst.slots : inst.slots[i].field = f

GetField(inst, f) ==
    IF HasField(inst, f)
    THEN inst.slots[CHOOSE i \in DOMAIN inst.slots : inst.slots[i].field = f].val
    ELSE Unset

SetField(inst, f, v) ==
    IF HasField(inst, f)
    THEN [inst EXCEPT !.slots =
            [i \in DOMAIN inst.slots |->
                IF inst.slots[i].field = f THEN Slot(f, v) ELSE inst.slots[i]]]
    ELSE [inst EXCEPT !.slots = Append(inst.slots, Slot(f, v))]

(***************************************************************************)
(* Namespaces and object type descriptors (atc.py lines 17-21 and the      *)
(* objtype of each kind).                                                  *)
(***************************************************************************)
Unprefixed == {"run", "maximumVerdicts", "objectSets", "info", "worklistRun",
               "object", "worklist"}

\* an element name declared without prefix belongs to the namespace of its kind;
\* attribute names are written as declared
Qualified(prefix, name) ==
    IF name \in Unprefixed /\ prefix # "" THEN prefix \o ":" \o name ELSE name

NoObjType == [ns |-> "", root |-> ""]

ObjType(kind) ==
    CASE kind = "RunRequest" -> [ns |-> "atc", root |-> "run"]
      [] kind = "ATCInfo" -> [ns |-> "atcinfo", root |-> "info"]
      [] kind = "RunResponse" -> [ns |-> "atcworklist", root |-> "worklistRun"]
      [] kind = "ATCObject" -> [ns |-> "atcobject", root |-> "object"]
      [] kind = "WorkList" -> [ns |-> "atcworklist", root |-> "worklist"]
      [] OTHER -> NoObjType

(***************************************************************************)
(* The ordered bindings of every kind, in declaration order.               *)
(***************************************************************************)
Attribute(f, name) == [field |-> f, kind |-> "Attribute", name |-> name, factory |-> ""]
TextNode(f, name) == [field |-> f, kind |-> "TextNode", name |-> name, factory |-> ""]
Element(f, name, factory) == [field |-> f, kind |-> "Element", name |-> name, factory |-> factory]
ElementContainer(f, name, factory) ==
    [field |-> f, kind |-> "ElementContainer", name |-> name, factory |-> factory]

RunRequestBindings ==
    << Attribute("max_verdicts", "maximumVerdicts"),
       Element("sets", "objectSets", "") >>

ATCInfoBindings ==
    << TextNode("typ", "atcinfo:type"),
       TextNode("description", "atcinfo:description") >>

RunResponseBindings ==
    << TextNode("worklist_id", "atcworklist:worklistId"),
       TextNode("timestamp", "atcworklist:worklistTimestamp"),
       ElementContainer("infos", "atcworklist:infos", "ATCInfoList") >>

WorkListObjectSetBindings ==
    << Attribute("name", "atcworklist:name"),
       Attribute("title", "atcworklist:title"),
       Attribute("kind", "atcworklist:kind") >>

ATCFindingBindings ==
    << Attribute("uri", "adtcore:uri"),
       Attribute("location", "atcfinding:location"),
       Attribute("priority", "atcfinding:priority"),
       Attribute("check_id", "atcfinding:checkId"),
       Attribute("check_title", "atcfinding:checkTitle"),
       Attribute("message_id", "atcfinding:messageId"),
       Attribute("message_title", "atcfinding:messageTitle"),
       Attribute("exemption_approval", "atcfinding:exemptionApproval"),
       Attribute("exemption_kind", "atcfinding:exemptionKind") >>

ATCObjectBindings ==
    << Attribute("uri", "adtcore:uri"),
       Attribute("typ", "adtcore:type"),
       Attribute("name", "adtcore:name"),
       Attribute("package_name", "adtcore:packageName"),
       Attribute("author", "atcobject:author"),
       Attribute("object_type_id", "atcobject:objectTypeId"),
       ElementContainer("findings", "atcobject:findings", "ATCFindingList") >>

\* variant: objects declared before object_sets
WorkListBindingsSwapped ==
    << Attribute("worklist_id", "atcworklist:id"),
       Attribute("timestamp", "atcworklist:timestamp"),
       Attribute("used_objectset", "atcworklist:usedObjectSet"),
       Attribute("object_set_is_complete", "atcworklist:objectSetIsComplete"),
       ElementContainer("objects", "atcworklist:objects", "ATCObjectList"),
       ElementContainer("object_sets", "atcworklist:objectSets", "WorkListObjectSetList") >>

WorkListBindings ==
    << Attribute("worklist_id", "atcworklist:id"),
       Attribute("timestamp", "atcworklist:timestamp"),
       Attribute("used_objectset", "atcworklist:usedObjectSet"),
       Attribute("object_set_is_complete", "atcworklist:objectSetIsComplete"),
       ElementContainer("object_sets", "atcworklist:objectSets", "WorkListObjectSetList"),
       ElementContainer("objects", "atcworklist:objects", "ATCObjectList") >>

\* ADTObjectSets is declared outside atc.py; nothing of it is bound here
ADTObjectSetsBindings == << >>

Bindings(kind) ==
    CASE kind = "RunRequest" -> RunRequestBindings
      [] kind = "ATCInfo" -> ATCInfoBindings
      [] kind = "RunResponse" -> RunResponseBindings
      [] kind = "WorkListObjectSet" -> WorkListObjectSetBindings
      [] kind = "ATCFinding" -> ATCFindingBindings
      [] kind = "ATCObject" -> ATCObjectBindings
      [] kind = "WorkList" -> WorkListBindings
      [] OTHER -> ADTObjectSetsBindings

\* XmlContainer.define(item element name, item kind)
ContainerItem(factory) ==
    CASE factory = "ATCInfoList" ->
            [name |-> Qualified(ObjType("ATCInfo").ns, ObjType("ATCInfo").root),
             kind |-> "ATCInfo"]
      [] factory = "WorkListObjectSetList" ->
            [name |-> "atcworklist:objectSet", kind |-> "WorkListObjectSet"]
      [] factory = "ATCFindingList" ->
            [name |-> "atcfinding:finding", kind |-> "ATCFinding"]
      [] OTHER ->
            [name |-> "atcobject:object", kind |-> "ATCObject"]

\* the namespace unprefixed names of a kind resolve to
KindNs(kind) == ObjType(kind).ns

(***************************************************************************)
(* Documents.  A document is the sequence of events the XML tokenizer      *)
(* delivers for it: start-element (with attributes), character data,       *)
(* end-element.                                                            *)
(***************************************************************************)
StartTok(name, attrs) == [ev |-> "start", name |-> name, attrs |-> attrs, text |-> ""]
CharsTok(text) == [ev |-> "chars", name |-> "", attrs |-> <<>>, text |-> text]
EndTok(name) == [ev |-> "end", name |-> name, attrs |-> <<>>, text |-> ""]
Attr(name, value) == [name |-> name, value |-> value]

Digit == <<"0", "1", "2", "3", "4", "5", "6", "7", "8", "9">>

RECURSIVE DecimalText(_)
DecimalText(n) ==
    IF n < 10 THEN Digit[n + 1]
    ELSE DecimalText(n \div 10) \o Digit[(n % 10) + 1]

\* the text written for a scalar
Stringify(v) == IF v.t = "num" THEN DecimalText(v.n) ELSE v.s

(***************************************************************************)
(* Marshal.serialize                                                       *)
(***************************************************************************)
SerializedAttrs(inst, kind) ==
    LET bs == SelectSeq(Bindings(kind),
                  LAMBDA b : b.kind = "Attribute" /\ GetField(inst, b.field).t # "unset")
    IN  [i \in DOMAIN bs |->
            Attr(bs[i].name, Stringify(GetField(inst, bs[i].field)))]

TextTokens(text) == IF text = "" THEN <<>> ELSE <<CharsTok(text)>>

RECURSIVE EmitElement(_, _, _)
RECURSIVE EmitBindings(_, _, _)
RECURSIVE EmitItems(_, _, _)

\* the element `name` for instance `inst` of `kind`
EmitElement(inst, kind, name) ==
    <<StartTok(name, SerializedAttrs(inst, kind))>>
        \o EmitBindings(inst, kind, 1)
        \o <<EndTok(name)>>

\* the child elements of the bindings i.. of `kind`, in declaration order
EmitBindings(inst, kind, i) ==
    IF i > Len(Bindings(kind)) THEN <<>>
    ELSE LET b == Bindings(kind)[i]
             v == GetField(inst, b.field)
             nm == Qualified(KindNs(kind), b.name)
             here == CASE b.kind = "Attribute" -> <<>>
                       [] b.kind # "Attribute" /\ v.t = "unset" -> <<>>
                       [] b.kind = "TextNode" /\ v.t # "unset" ->
                            <<StartTok(nm, <<>>)>> \o TextTokens(Stringify(v)) \o <<EndTok(nm)>>
                       [] b.kind = "Element" /\ v.t # "unset" -> EmitElement(v, v.kind, nm)
                       [] OTHER ->
                            <<StartTok(nm, <<>>)>> \o EmitItems(v, b.factory, 1) \o <<EndTok(nm)>>
         IN  here \o EmitBindings(inst, kind, i + 1)

\* the items i.. of a container, each under the container's item name
EmitItems(list, factory, i) ==
    IF i > Len(list.slots) THEN <<>>
    ELSE EmitElement(list.slots[i], ContainerItem(factory).kind, ContainerItem(factory).name)
            \o EmitItems(list, factory, i + 1)

\* ok is FALSE when the kind has no object type descriptor
Serialize(inst) ==
    IF ObjType(inst.kind) = NoObjType
    THEN [ok |-> FALSE, doc |-> <<>>]
    ELSE [ok |-> TRUE,
          doc |-> EmitElement(inst, inst.kind,
                      Qualified(ObjType(inst.kind).ns, ObjType(inst.kind).root))]

(***************************************************************************)
(* Marshal.deserialize: a stack of frames, one per open element.           *)
(*   obj   the element populates instance inst                             *)
(*   text  the element is a text node bound to `field` of the parent       *)
(*   list  the element wraps the items of a container (factory fac)        *)
(*   skip  the element is not bound: its content is ignored                *)
(***************************************************************************)
Frame(fk, name, field, fac, inst) ==
    [fk |-> fk, name |-> name, field |-> field, fac |-> fac, inst |-> inst, buf |-> ""]

ParserInit(target) ==
    [status |-> "run", stack |-> <<>>, target |-> target, rootSeen |-> FALSE]

RECURSIVE ApplyAttrs(_, _, _, _)
\* the attributes i.. of a start element applied to the bindings of `kind`
ApplyAttrs(inst, kind, attrs, i) ==
    IF i > Len(attrs) THEN inst
    ELSE LET hit == {j \in DOMAIN Bindings(kind) :
                        /\ Bindings(kind)[j].kind = "Attribute"
                        /\ Bindings(kind)[j].name = attrs[i].name}
             next == IF hit = {} THEN inst
                     ELSE SetField(inst, Bindings(kind)[CHOOSE j \in hit : TRUE].field,
                                   Str(attrs[i].value))
         IN  ApplyAttrs(next, kind, attrs, i + 1)

\* variant: an unbound element is looked through, its content is read as if
\* it stood in the enclosing element
UnboundTransparent(top, tok) == [top EXCEPT !.name = tok.name, !.buf = ""]

\* the frame of an element no binding matches: its content is ignored
UnboundFrame(top, tok) == Frame("skip", tok.name, "", "", Unset)

\* the frame a start element opens under frame `top`
ChildFrame(top, tok) ==
    CASE top.fk = "obj" ->
            LET kind == top.inst.kind
                hit == {j \in DOMAIN Bindings(kind) :
                           /\ Bindings(kind)[j].kind # "Attribute"
                           /\ Qualified(KindNs(kind), Bindings(kind)[j].name) = tok.name}
            IN  IF hit = {} THEN UnboundFrame(top, tok)
                ELSE LET b == Bindings(kind)[CHOOSE j \in hit : \A k \in hit : j <= k]
                         held == GetField(top.inst, b.field)
                     IN  CASE b.kind = "TextNode" ->
                                 Frame("text", tok.name, b.field, "", Unset)
                           [] b.kind = "ElementContainer" ->
                                 Frame("list", tok.name, b.field, b.factory, Unset)
                           [] OTHER ->
                                 IF held.t = "obj"
                                 THEN Frame("obj", tok.name, b.field, "",
                                            ApplyAttrs(held, held.kind, tok.attrs, 1))
                                 ELSE UnboundFrame(top, tok)
      [] top.fk = "list" ->
            LET item == ContainerItem(top.fac)
            IN  IF tok.name = item.name
                THEN Frame("obj", tok.name, "", "",
                           ApplyAttrs(Obj(item.kind, <<>>), item.kind, tok.attrs, 1))
                ELSE UnboundFrame(top, tok)
      [] OTHER -> UnboundFrame(top, tok)

OnStart(ps, tok) ==
    IF ps.stack = <<>>
    THEN IF ps.rootSeen THEN [ps EXCEPT !.status = "error"]
         ELSE LET kind == ps.target.kind
                  root == Qualified(ObjType(kind).ns, ObjType(kind).root)
                  f == IF tok.name = root /\ ObjType(kind) # NoObjType
                       THEN Frame("obj", tok.name, "", "",
                                  ApplyAttrs(ps.target, kind, tok.attrs, 1))
                       ELSE Frame("skip", tok.name, "", "", Unset)
              IN  [ps EXCEPT !.stack = <<f>>, !.rootSeen = TRUE]
    ELSE [ps EXCEPT !.stack = Append(ps.stack, ChildFrame(ps.stack[Len(ps.stack)], tok))]

OnChars(ps, tok) ==
    IF ps.stack = <<>> THEN [ps EXCEPT !.status = "error"]
    ELSE [ps EXCEPT !.stack[Len(ps.stack)].buf = @ \o tok.text]

\* frame f closes under frame p: what p holds afterwards
Commit(p, f) ==
    CASE f.fk = "text" /\ p.fk = "obj" ->
            [p EXCEPT !.inst = SetField(p.inst, f.field, Str(f.buf))]
      [] f.fk = "obj" /\ p.fk = "obj" ->
            [p EXCEPT !.inst = SetField(p.inst, f.field, f.inst)]
      [] f.fk = "obj" /\ p.fk = "list" ->
            [p EXCEPT !.inst = IF p.inst.t = "unset"
                               THEN List(p.fac, <<f.inst>>)
                               ELSE List(p.fac, Append(p.inst.slots, f.inst))]
      [] f.fk = "list" /\ p.fk = "obj" /\ f.inst.t # "unset" ->
            [p EXCEPT !.inst = SetField(p.inst, f.field, f.inst)]
      [] OTHER -> p

OnEnd(ps, tok) ==
    IF ps.stack = <<>> THEN [ps EXCEPT !.status = "error"]
    ELSE LET n == Len(ps.stack)
             f == ps.stack[n]
         IN  IF f.name # tok.name THEN [ps EXCEPT !.status = "error"]
             ELSE IF n = 1
                  THEN [ps EXCEPT !.stack = <<>>,
                                  !.target = IF f.fk = "obj" THEN f.inst ELSE @]
                  ELSE [ps EXCEPT !.stack =
                            Append(SubSeq(ps.stack, 1, n - 2), Commit(ps.stack[n - 1], f))]

OnEof(ps) ==
    IF ps.status = "run" /\ ps.stack = <<>> /\ ps.rootSeen
    THEN [ps EXCEPT !.status = "done"]
    ELSE [ps EXCEPT !.status = "error"]

ParserStep(ps, tok) ==
    IF ps.status # "run" THEN ps
    ELSE CASE tok.ev = "start" -> OnStart(ps, tok)
           [] tok.ev = "chars" -> OnChars(ps, tok)
           [] OTHER -> OnEnd(ps, tok)

RECURSIVE Feed(_, _, _)
Feed(ps, doc, i) ==
    IF i > Len(doc) THEN ps ELSE Feed(ParserStep(ps, doc[i]), doc, i + 1)

\* ok is FALSE when the parser reports a malformed document
Deserialize(doc, target) ==
    LET r == OnEof(Feed(ParserInit(target), doc, 1))
    IN  [ok |-> r.status = "done", obj |-> r.target]

(***************************************************************************)
(* ChecksRunner                                                            *)
(***************************************************************************)
Callers == 1..NCallers

\* self._worklist_id: None, or the text of a response (any string, also "")
NoId == [some |-> FALSE, text |-> ""]
SomeId(x) == [some |-> TRUE, text |-> x]

\* what the transport may answer
IdTexts == {"", "WL1", "WL2"}
Errors == {"ConnectionError", "HTTPError"}
ParseError == "SAXParseException"

\* RunRequest.__init__: _sets is assigned before max_verdicts
RunRequest(obj_sets, max_verdicts) ==
    Obj("RunRequest", <<Slot("sets", obj_sets), Slot("max_verdicts", max_verdicts)>>)

DefaultMaxVerdicts == 100
MaxVerdictsInputs == {Num(DefaultMaxVerdicts), Num(5)}
ObjSetsInput == Obj("ADTObjectSets", <<>>)

SampleInfo == Obj("ATCInfo", <<Slot("typ", Str("FINDING_STATS")),
                               Slot("description", Str("0,0,1"))>>)
SampleFinding == Obj("ATCFinding", <<Slot("priority", Str("1")),
                                     Slot("check_id", Str("C1"))>>)
SampleObject == Obj("ATCObject", <<Slot("name", Str("ZCL")),
                                   Slot("findings", List("ATCFindingList", <<SampleFinding>>))>>)
SampleObjectSet == Obj("WorkListObjectSet", <<Slot("name", Str("ALL")),
                                              Slot("kind", Str("inclusive"))>>)
SampleRunResponse ==
    Obj("RunResponse", <<Slot("worklist_id", Str("WL1")),
                         Slot("timestamp", Str("20230101000000")),
                         Slot("infos", List("ATCInfoList", <<SampleInfo>>))>>)
SampleWorkList ==
    Obj("WorkList", <<Slot("worklist_id", Str("WL1")),
                      Slot("object_sets", List("WorkListObjectSetList", <<SampleObjectSet>>)),
                      Slot("objects", List("ATCObjectList", <<SampleObject>>))>>)

\* a document the parser rejects: the root element is never closed
MalformedDoc == <<StartTok("atcworklist:worklistRun", <<>>)>>

RunResponseTexts == {Serialize(SampleRunResponse).doc, MalformedDoc}
WorkListTexts == {Serialize(SampleWorkList).doc, MalformedDoc}

LogEntry(n, t, req, id, ok, text, err) ==
    [call |-> n, caller |-> t, req |-> req, id |-> id, ok |-> ok, text |-> text, err |-> err]

\* ret: the identifier _get_id returned; result: the WorkListRunResult run_for
\* returned; cached: self._worklist_id as the call ended
DoneEntry(n, o, outcome, at, err, ret, result, cached) ==
    [call |-> n, op |-> o, outcome |-> outcome, at |-> at, err |-> err, ret |-> ret,
     result |-> result, cached |-> cached]

\* WorkListRunResult(run_response, worklist)
WorkListRunResult(response, worklist) == <<response, worklist>>
NoResult == <<>>

\* variant: the cached identifier is not looked at
NeedsCreateAlways(id) == TRUE

\* line 198: if self._worklist_id is None
NeedsCreate(id) == ~id.some

\* variant: the response text is returned but not kept
IdNotCached(old, text) == old

\* line 202: self._worklist_id = resp.text
IdAfterCreate(old, text) == SomeId(text)

\* variant: a placeholder is cached before the request is made
IdCachedOnRaise(old) == SomeId("")

\* lines 199-201: execute raises, so line 202 is not reached
IdAfterCreateRaise(old) == old

\* variant: a failed run forgets the work list
IdResetOnRaise(old) == NoId

\* lines 213-225: nothing in run_for assigns self._worklist_id
IdAfterRunRaise(old) == old

\* variant: errors are wrapped into an error of this module
Wrapped(e) == "ATCError"

\* no try/except in _get_id and run_for: the caller gets the error raised
Propagated(e) == e

\* a fresh ChecksRunner and idle callers
RunnerInit ==
    /\ worklist_id = NoId
    /\ pc = [t \in Callers |-> "idle"]
    /\ op = [t \in Callers |-> "none"]
    /\ callno = [t \in Callers |-> 0]
    /\ resp = [t \in Callers |-> ""]
    /\ lid = [t \in Callers |-> NoId]
    /\ request = [t \in Callers |-> <<>>]
    /\ run_response = [t \in Callers |-> Unset]
    /\ log = <<>>
    /\ done = <<>>
    /\ started = <<>>

\* a caller may start a call; sequential calls are all made by caller 1, each
\* after the one before has ended
MayStart(t, sequential) ==
    /\ pc[t] = "idle"
    /\ Len(started) < (IF sequential THEN MaxCalls ELSE MaxOverlap)
    /\ sequential => t = 1

\* a call ends: its result or error goes to the caller, its locals are gone
Finish(t, outcome, at, err, ret, result, cached) ==
    /\ done' = Append(done, DoneEntry(callno[t], op[t], outcome, at, err, ret, result, cached))
    /\ pc' = [pc EXCEPT ![t] = "idle"]
    /\ resp' = [resp EXCEPT ![t] = ""]
    /\ lid' = [lid EXCEPT ![t] = NoId]
    /\ request' = [request EXCEPT ![t] = <<>>]
    /\ run_response' = [run_response EXCEPT ![t] = Unset]

\* a caller calls _get_id directly
CallGetId(t, sequential) ==
    /\ MayStart(t, sequential)
    /\ started' = Append(started, "get_id")
    /\ op' = [op EXCEPT ![t] = "get_id"]
    /\ callno' = [callno EXCEPT ![t] = Len(started) + 1]
    /\ pc' = [pc EXCEPT ![t] = "gi_check"]
    /\ UNCHANGED <<worklist_id, resp, lid, request, run_response, log, done>>
    /\ UNCHANGED marshalVars

\* run_for, lines 209-212: build and serialize the request, then call _get_id
CallRunFor(t, sequential) ==
    /\ MayStart(t, sequential)
    /\ \E mv \in MaxVerdictsInputs :
          request' = [request EXCEPT ![t] = Serialize(RunRequest(ObjSetsInput, mv)).doc]
    /\ started' = Append(started, "run_for")
    /\ op' = [op EXCEPT ![t] = "run_for"]
    /\ callno' = [callno EXCEPT ![t] = Len(started) + 1]
    /\ pc' = [pc EXCEPT ![t] = "gi_check"]
    /\ UNCHANGED <<worklist_id, resp, lid, run_response, log, done>>
    /\ UNCHANGED marshalVars

\* _get_id, line 198
GetIdCheck(t) ==
    /\ pc[t] = "gi_check"
    /\ pc' = [pc EXCEPT ![t] = IF NeedsCreate(worklist_id) THEN "gi_post" ELSE "gi_return"]
    /\ UNCHANGED <<worklist_id, op, callno, resp, lid, request, run_response, log, done,
                   started>>
    /\ UNCHANGED marshalVars

\* _get_id, lines 199-201: POST atc/worklists answers with a text
GetIdPost(t) ==
    /\ pc[t] = "gi_post"
    /\ \E x \in IdTexts :
          /\ log' = Append(log, LogEntry(callno[t], t, "create", NoId, TRUE, x, ""))
          /\ resp' = [resp EXCEPT ![t] = x]
    /\ pc' = [pc EXCEPT ![t] = "gi_assign"]
    /\ UNCHANGED <<worklist_id, op, callno, lid, request, run_response, done, started>>
    /\ UNCHANGED marshalVars

\* _get_id, lines 199-201: POST atc/worklists raises
GetIdPostRaises(t) ==
    /\ pc[t] = "gi_post"
    /\ \E e \in Errors :
          /\ log' = Append(log, LogEntry(callno[t], t, "create", NoId, FALSE, "", e))
          /\ worklist_id' = IdAfterCreateRaise(worklist_id)
          /\ Finish(t, "raised", "create", Propagated(e), NoId, NoResult, worklist_id')
    /\ UNCHANGED <<op, callno, started>>
    /\ UNCHANGED marshalVars

\* _get_id, line 202
GetIdAssign(t) ==
    /\ pc[t] = "gi_assign"
    /\ worklist_id' = IdAfterCreate(worklist_id, resp[t])
    /\ pc' = [pc EXCEPT ![t] = "gi_return"]
    /\ UNCHANGED <<op, callno, resp, lid, request, run_response, log, done, started>>
    /\ UNCHANGED marshalVars

\* _get_id, line 204, to its caller
GetIdReturn(t) ==
    /\ pc[t] = "gi_return"
    /\ IF op[t] = "get_id"
       THEN Finish(t, "returned", "", "", worklist_id, NoResult, worklist_id)
       ELSE /\ lid' = [lid EXCEPT ![t] = worklist_id]
            /\ pc' = [pc EXCEPT ![t] = "rf_submit"]
            /\ UNCHANGED <<done, resp, request, run_response>>
    /\ UNCHANGED <<worklist_id, op, callno, log, started>>
    /\ UNCHANGED marshalVars

\* run_for, lines 213-218: POST atc/runs answers; the answer is deserialized
RunSubmit(t) ==
    /\ pc[t] = "rf_submit"
    /\ \E d \in RunResponseTexts :
          /\ log' = Append(log, LogEntry(callno[t], t, "submit", lid[t], TRUE, "", ""))
          /\ IF Deserialize(d, Obj("RunResponse", <<>>)).ok
             THEN /\ pc' = [pc EXCEPT ![t] = "rf_fetch"]
                  /\ run_response' = [run_response EXCEPT ![t] =
                                          Deserialize(d, Obj("RunResponse", <<>>)).obj]
                  /\ UNCHANGED <<worklist_id, done, resp, lid, request>>
             ELSE /\ worklist_id' = IdAfterRunRaise(worklist_id)
                  /\ Finish(t, "raised", "parse_run", Propagated(ParseError), NoId,
                            NoResult, worklist_id')
    /\ UNCHANGED <<op, callno, started>>
    /\ UNCHANGED marshalVars

\* run_for, lines 213-215: POST atc/runs raises
RunSubmitRaises(t) ==
    /\ pc[t] = "rf_submit"
    /\ \E e \in Errors :
          /\ log' = Append(log, LogEntry(callno[t], t, "submit", lid[t], FALSE, "", e))
          /\ worklist_id' = IdAfterRunRaise(worklist_id)
          /\ Finish(t, "raised", "submit", Propagated(e), NoId, NoResult, worklist_id')
    /\ UNCHANGED <<op, callno, started>>
    /\ UNCHANGED marshalVars

\* run_for, lines 220-227: GET atc/worklists/<id> answers; the answer is
\* deserialized and the pair of results returned
RunFetch(t) ==
    /\ pc[t] = "rf_fetch"
    /\ \E d \in WorkListTexts :
          /\ log' = Append(log, LogEntry(callno[t], t, "fetch", lid[t], TRUE, "", ""))
          /\ worklist_id' = IF Deserialize(d, Obj("WorkList", <<>>)).ok
                            THEN worklist_id ELSE IdAfterRunRaise(worklist_id)
          /\ IF Deserialize(d, Obj("WorkList", <<>>)).ok
             THEN Finish(t, "returned", "", "", NoId,
                         WorkListRunResult(run_response[t],
                                           Deserialize(d, Obj("WorkList", <<>>)).obj),
                         worklist_id')
             ELSE Finish(t, "raised", "parse_worklist", Propagated(ParseError), NoId,
                         NoResult, worklist_id')
    /\ UNCHANGED <<op, callno, started>>
    /\ UNCHANGED marshalVars

\* run_for, lines 220-222: GET atc/worklists/<id> raises
RunFetchRaises(t) ==
    /\ pc[t] = "rf_fetch"
    /\ \E e \in Errors :
          /\ log' = Append(log, LogEntry(callno[t], t, "fetch", lid[t], FALSE, "", e))
          /\ worklist_id' = IdAfterRunRaise(worklist_id)
          /\ Finish(t, "raised", "fetch", Propagated(e), NoId, NoResult, worklist_id')
    /\ UNCHANGED <<op, callno, started>>
    /\ UNCHANGED marshalVars

\* the steps inside a call
CallStep(t) ==
    \/ GetIdCheck(t)
    \/ GetIdPost(t)
    \/ GetIdPostRaises(t)
    \/ GetIdAssign(t)
    \/ GetIdReturn(t)
    \/ RunSubmit(t)
    \/ RunSubmitRaises(t)
    \/ RunFetch(t)
    \/ RunFetchRaises(t)

(***************************************************************************)
(* Marshalling scenario: an instance of one kind is populated field by     *)
(* field, serialized, and the document (or a received document, possibly   *)
(* with unbound structure added) is deserialized into a fresh target, one  *)
(* tokenizer event at a time.                                              *)
(***************************************************************************)
Kinds == {"RunRequest", "ATCInfo", "RunResponse", "WorkListObjectSet", "ATCFinding",
          "ATCObject", "WorkList"}

\* the fresh target of a deserialization
NewInstance(kind) ==
    IF kind = "RunRequest" THEN RunRequest(ObjSetsInput, Unset) ELSE Obj(kind, <<>>)

\* texts assigned to attribute and text node fields
ScalarInputs == {Str("4711"), Str("")}

\* the instances a constructor returns: RunRequest takes its fields as
\* arguments (max_verdicts: a number, or None), the other kinds start with
\* every field unset
BuiltInstances(kind) ==
    IF kind = "RunRequest"
    THEN {RunRequest(ObjSetsInput, v) : v \in {Num(DefaultMaxVerdicts), Unset}}
    ELSE {Obj(kind, <<>>)}

SampleItems(kind) ==
    CASE kind = "ATCInfo" -> <<SampleInfo, Obj("ATCInfo", <<>>)>>
      [] kind = "WorkListObjectSet" -> <<SampleObjectSet, Obj("WorkListObjectSet", <<>>)>>
      [] kind = "ATCFinding" -> <<SampleFinding, Obj("ATCFinding", <<>>)>>
      [] OTHER -> <<SampleObject, Obj("ATCObject", <<>>)>>

ContainerInputs(factory) ==
    {List(factory, <<>>), List(factory, SampleItems(ContainerItem(factory).kind))}

InputsFor(b) ==
    CASE b.kind = "ElementContainer" -> ContainerInputs(b.factory)
      [] b.kind = "Element" -> {ObjSetsInput}
      [] b.field = "max_verdicts" -> MaxVerdictsInputs
      [] OTHER -> ScalarInputs

NumPopulated(inst) ==
    Cardinality({i \in DOMAIN inst.slots : inst.slots[i].val.t # "unset"})

\* the run response of scenario B: no info element, with and without the
\* wrapper of the infos container
ScenarioBDoc ==
    << StartTok("atcworklist:worklistRun", <<>>),
       StartTok("atcworklist:worklistId", <<>>), CharsTok("4711"),
       EndTok("atcworklist:worklistId"),
       StartTok("atcworklist:worklistTimestamp", <<>>), CharsTok("20230101000000"),
       EndTok("atcworklist:worklistTimestamp"),
       EndTok("atcworklist:worklistRun") >>

ScenarioBWrappedDoc ==
    SubSeq(ScenarioBDoc, 1, 7)
        \o <<StartTok("atcworklist:infos", <<>>), EndTok("atcworklist:infos")>>
        \o <<EndTok("atcworklist:worklistRun")>>

ReceivedDocs(kind) ==
    IF kind = "RunResponse"
    THEN {[name |-> "scenarioB", doc |-> ScenarioBDoc],
          [name |-> "scenarioBwrapped", doc |-> ScenarioBWrappedDoc],
          [name |-> "malformed", doc |-> MalformedDoc]}
    ELSE {[name |-> "malformed", doc |-> MalformedDoc]}

RECURSIVE BoundLookalikes(_, _)
\* for the child bindings i.. of kind: elements named like them, with content
BoundLookalikes(kind, i) ==
    IF i > Len(Bindings(kind)) THEN <<>>
    ELSE LET b == Bindings(kind)[i]
             nm == Qualified(KindNs(kind), b.name)
             here == CASE b.kind = "Attribute" -> <<>>
                       [] b.kind = "ElementContainer" ->
                            <<StartTok(nm, <<>>),
                              StartTok(ContainerItem(b.factory).name, <<>>),
                              EndTok(ContainerItem(b.factory).name),
                              EndTok(nm)>>
                       [] OTHER -> <<StartTok(nm, <<>>), CharsTok("EVIL"), EndTok(nm)>>
         IN  here \o BoundLookalikes(kind, i + 1)

\* elements no binding of `kind` matches
UnknownElements(kind) ==
    { <<StartTok("x:unknown", <<Attr("x:a", "1")>>), CharsTok("text"), EndTok("x:unknown")>>,
      <<StartTok("x:unknown", <<>>)>> \o BoundLookalikes(kind, 1) \o <<EndTok("x:unknown")>> }

RECURSIVE Depth(_, _)
\* number of elements open after the first i tokens of doc
Depth(doc, i) ==
    IF i = 0 THEN 0
    ELSE Depth(doc, i - 1)
            + (IF doc[i].ev = "start" THEN 1 ELSE IF doc[i].ev = "end" THEN -1 ELSE 0)

\* places between two children of the root element (or before the first, after the last)
ChildBoundaries(doc) == {i \in 1..(Len(doc) - 1) : Depth(doc, i) = 1}

InsertAt(doc, i, toks) == SubSeq(doc, 1, i) \o toks \o SubSeq(doc, i + 1, Len(doc))

MarshalOff ==
    /\ mphase = "off"
    /\ mkind = "none"
    /\ mobj = Unset
    /\ mdoc = <<>>
    /\ mfeed = <<>>
    /\ mpos = 0
    /\ mparser = ParserInit(Unset)
    /\ morigin = "none"

MarshalInit ==
    /\ mphase = "build"
    /\ mkind \in Kinds
    /\ mobj \in BuiltInstances(mkind)
    /\ mdoc = <<>>
    /\ mfeed = <<>>
    /\ mpos = 0
    /\ mparser = ParserInit(NewInstance(mkind))
    /\ morigin = "none"

\* the caller assigns one more field of the instance
Populate ==
    /\ mphase = "build"
    /\ NumPopulated(mobj) < MaxPop
    /\ \E i \in DOMAIN Bindings(mkind) :
          /\ GetField(mobj, Bindings(mkind)[i].field).t = "unset"
          /\ \E v \in InputsFor(Bindings(mkind)[i]) :
                mobj' = SetField(mobj, Bindings(mkind)[i].field, v)
    /\ UNCHANGED <<mphase, mkind, mdoc, mfeed, mpos, mparser, morigin>>
    /\ UNCHANGED runnerVars

\* Marshal().serialize(instance)
SerializeInstance ==
    /\ mphase = "build"
    /\ IF Serialize(mobj).ok
       THEN /\ mphase' = "doc"
            /\ mdoc' = Serialize(mobj).doc
            /\ mfeed' = Serialize(mobj).doc
            /\ morigin' = "serialized"
       ELSE /\ mphase' = "failed"
            /\ UNCHANGED <<mdoc, mfeed, morigin>>
    /\ UNCHANGED <<mkind, mobj, mpos, mparser>>
    /\ UNCHANGED runnerVars

\* a document arrives from the service instead
ReceiveDocument ==
    /\ mphase = "build"
    /\ mobj = NewInstance(mkind)
    /\ \E d \in ReceivedDocs(mkind) :
          /\ mdoc' = d.doc
          /\ mfeed' = d.doc
          /\ morigin' = d.name
    /\ mphase' = "doc"
    /\ UNCHANGED <<mkind, mobj, mpos, mparser>>
    /\ UNCHANGED runnerVars

\* the service adds an element this client has no binding for
InjectElement ==
    /\ mphase = "doc"
    /\ mfeed = mdoc
    /\ \E i \in ChildBoundaries(mdoc), e \in UnknownElements(mkind) :
          mfeed' = InsertAt(mdoc, i, e)
    /\ UNCHANGED <<mphase, mkind, mobj, mdoc, mpos, mparser, morigin>>
    /\ UNCHANGED runnerVars

\* the service adds an attribute this client has no binding for
InjectAttribute ==
    /\ mphase = "doc"
    /\ mfeed = mdoc
    /\ mfeed' = [mdoc EXCEPT ![1].attrs = Append(@, Attr("x:unknown", "1"))]
    /\ UNCHANGED <<mphase, mkind, mobj, mdoc, mpos, mparser, morigin>>
    /\ UNCHANGED runnerVars

Parsing == mphase \in {"doc", "parse"} /\ mparser.status = "run"

AfterToken(ps) ==
    /\ mparser' = ps
    /\ mpos' = mpos + 1
    /\ mphase' = IF ps.status = "error" THEN "error" ELSE "parse"
    /\ UNCHANGED <<mkind, mobj, mdoc, mfeed, morigin>>
    /\ UNCHANGED runnerVars

\* Marshal.deserialize: the tokenizer reports a start element
ParseStartElement ==
    /\ Parsing
    /\ mpos < Len(mfeed)
    /\ mfeed[mpos + 1].ev = "start"
    /\ AfterToken(OnStart(mparser, mfeed[mpos + 1]))

\* Marshal.deserialize: the tokenizer reports character data
ParseCharacters ==
    /\ Parsing
    /\ mpos < Len(mfeed)
    /\ mfeed[mpos + 1].ev = "chars"
    /\ AfterToken(OnChars(mparser, mfeed[mpos + 1]))

\* Marshal.deserialize: the tokenizer reports an end element
ParseEndElement ==
    /\ Parsing
    /\ mpos < Len(mfeed)
    /\ mfeed[mpos + 1].ev = "end"
    /\ AfterToken(OnEnd(mparser, mfeed[mpos + 1]))

\* Marshal.deserialize: the document ends
ParseEnd ==
    /\ Parsing
    /\ mpos = Len(mfeed)
    /\ mparser' = OnEof(mparser)
    /\ mphase' = IF mparser'.status = "done" THEN "done" ELSE "error"
    /\ UNCHANGED <<mkind, mobj, mdoc, mfeed, mpos, morigin>>
    /\ UNCHANGED runnerVars

(***************************************************************************)
(* Specifications                                                          *)
(***************************************************************************)
\* one ChecksRunner used by one caller at a time
Init == RunnerInit /\ MarshalOff

Next ==
    \E t \in Callers :
        \/ CallGetId(t, TRUE)
        \/ CallRunFor(t, TRUE)
        \/ CallStep(t)

Spec == Init /\ [][Next]_vars

\* one ChecksRunner whose _get_id is called by several callers at once
NextConcurrent ==
    \E t \in Callers :
        \/ CallGetId(t, FALSE)
        \/ GetIdCheck(t)
        \/ GetIdPost(t)
        \/ GetIdPostRaises(t)
        \/ GetIdAssign(t)
        \/ GetIdReturn(t)

SpecConcurrent == Init /\ [][NextConcurrent]_vars

\* the marshalling scenario
InitMarshal == RunnerInit /\ MarshalInit

NextMarshal ==
    \/ Populate
    \/ SerializeInstance
    \/ ReceiveDocument
    \/ InjectElement
    \/ InjectAttribute
    \/ ParseStartElement
    \/ ParseCharacters
    \/ ParseEndElement
    \/ ParseEnd

SpecMarshal == InitMarshal /\ [][NextMarshal]_vars

(***************************************************************************)
(* Properties of ChecksRunner                                              *)
(***************************************************************************)
Creates == {i \in DOMAIN log : log[i].req = "create"}
ReqsOf(n, r) == {i \in DOMAIN log : log[i].call = n /\ log[i].req = r}
NoTransportFailure == \A i \in DOMAIN log : log[i].ok
OnlyGetIdCalls == \A i \in DOMAIN started : started[i] = "get_id"
AllReturned == \A k \in DOMAIN done : done[k].outcome = "returned"

\* C1: sequential calls of _get_id with a transport that succeeds issue one
\* creation request in total, and every call returns the text of its response.
C1_OneCreationOneId ==
    (OnlyGetIdCalls /\ NoTransportFailure) =>
        /\ Cardinality(Creates) <= 1
        /\ done # <<>> => Cardinality(Creates) = 1
        /\ \A k \in DOMAIN done :
              /\ done[k].outcome = "returned"
              /\ done[k].ret = SomeId(log[1].text)

C1_Witness ==
    /\ OnlyGetIdCalls /\ NoTransportFailure
    /\ Len(done) = 3
    /\ Len(log) = 1
    /\ \A k \in DOMAIN done : done[k].ret = SomeId("WL1")

\* C2: whatever the interleaving of concurrent callers of _get_id, at most one
\* creation request is issued and all callers use the same identifier.
C2_AtMostOneCreation ==
    NoTransportFailure =>
        /\ Cardinality(Creates) <= 1
        /\ \A k \in DOMAIN done :
              done[k].op = "get_id" => done[k].ret = SomeId(log[1].text)
        /\ \A i \in DOMAIN log :
              log[i].req # "create" => log[i].id = SomeId(log[1].text)

\* the five requests of two successful run_for calls, in order, with one identifier
TwoRunsShape ==
    /\ Len(log) = 5
    /\ [i \in 1..5 |-> log[i].req] = <<"create", "submit", "fetch", "submit", "fetch">>
    /\ [i \in 1..5 |-> log[i].call] = <<1, 1, 1, 2, 2>>
    /\ \A i \in 2..5 : log[i].id = SomeId(log[1].text)
    /\ worklist_id = SomeId(log[1].text)

TwoRunsEnded == started = <<"run_for", "run_for">> /\ Len(done) = 2

\* C3 as stated: two run_for calls in sequence with every transport call
\* succeeding issue one creation, two submissions and two fetches.
C3_TwoRunsTransportOk ==
    (TwoRunsEnded /\ NoTransportFailure) => TwoRunsShape

\* C3, amended: two run_for calls in sequence, with every transport call succeeding
\* and every response deserialized without error, issue one creation request,
\* then submission and fetch of the first call, then submission and fetch of the
\* second, all four carrying the cached identifier.
C3_TwoRunsReturned ==
    (TwoRunsEnded /\ NoTransportFailure /\ AllReturned) => TwoRunsShape

C3_Witness ==
    /\ TwoRunsEnded /\ NoTransportFailure /\ AllReturned
    /\ worklist_id = SomeId("WL2")
    /\ \A k \in DOMAIN done : Len(done[k].result) = 2

\* C4: a creation request that fails ends the call with that error; nothing is
\* cached, no submission or fetch is issued in that call, and the call after it
\* issues a creation request again.
C4_CreateFailure ==
    \A k \in DOMAIN done :
        (done[k].outcome = "raised" /\ done[k].at = "create") =>
            /\ \E i \in ReqsOf(done[k].call, "create") :
                  ~log[i].ok /\ done[k].err = log[i].err
            /\ done[k].cached = NoId
            /\ ReqsOf(done[k].call, "submit") = {}
            /\ ReqsOf(done[k].call, "fetch") = {}
            /\ k < Len(done) => ReqsOf(done[k + 1].call, "create") # {}

C4_Witness ==
    /\ Len(done) = 3
    /\ done[1].outcome = "raised" /\ done[1].at = "create" /\ done[1].op = "run_for"
    /\ done[2].outcome = "raised" /\ done[2].at = "create" /\ done[2].op = "get_id"
    /\ done[3].outcome = "returned"
    /\ Cardinality(Creates) = 3

\* C5: a transport failure at the submission or at the fetch of run_for reaches
\* the caller as the error raised, without a result; no request is made twice in
\* a call, and after a failed submission no fetch is issued in that call.
C5_RunFailure ==
    \A k \in DOMAIN done :
        /\ \A r \in {"create", "submit", "fetch"} :
              Cardinality(ReqsOf(done[k].call, r)) <= 1
        /\ (done[k].outcome = "raised" /\ done[k].at = "submit") =>
              /\ \E i \in ReqsOf(done[k].call, "submit") :
                    ~log[i].ok /\ done[k].err = log[i].err
              /\ done[k].result = NoResult
              /\ ReqsOf(done[k].call, "fetch") = {}
        /\ (done[k].outcome = "raised" /\ done[k].at = "fetch") =>
              /\ \E i \in ReqsOf(done[k].call, "fetch") :
                    ~log[i].ok /\ done[k].err = log[i].err
              /\ done[k].result = NoResult

C5_Witness ==
    /\ \E k \in DOMAIN done :
          done[k].outcome = "raised" /\ done[k].at = "submit" /\ done[k].err = "HTTPError"
    /\ \E k \in DOMAIN done :
          done[k].outcome = "raised" /\ done[k].at = "fetch" /\ done[k].err = "ConnectionError"

RECURSIVE SameValue(_, _)
\* equal field by field, whatever the order in which the fields were assigned
SameValue(a, b) ==
    CASE a.t = "obj" /\ b.t = "obj" ->
            /\ a.kind = b.kind
            /\ \A i \in DOMAIN Bindings(a.kind) :
                  SameValue(GetField(a, Bindings(a.kind)[i].field),
                            GetField(b, Bindings(a.kind)[i].field))
      [] a.t = "list" /\ b.t = "list" ->
            /\ a.kind = b.kind
            /\ Len(a.slots) = Len(b.slots)
            /\ \A i \in DOMAIN a.slots : SameValue(a.slots[i], b.slots[i])
      [] OTHER -> a = b

\* the names of the child elements of the root, in document order
ChildNames(doc) ==
    LET at == SelectSeq([i \in DOMAIN doc |-> i],
                  LAMBDA i : doc[i].ev = "start" /\ Depth(doc, i - 1) = 1)
    IN  [k \in DOMAIN at |-> doc[at[k]].name]

\* the child elements of each kind as atc.py declares them, first to last
DeclaredChildren(kind) ==
    CASE kind = "RunRequest" -> <<[field |-> "sets", name |-> "atc:objectSets"]>>
      [] kind = "ATCInfo" ->
            <<[field |-> "typ", name |-> "atcinfo:type"],
              [field |-> "description", name |-> "atcinfo:description"]>>
      [] kind = "RunResponse" ->
            <<[field |-> "worklist_id", name |-> "atcworklist:worklistId"],
              [field |-> "timestamp", name |-> "atcworklist:worklistTimestamp"],
              [field |-> "infos", name |-> "atcworklist:infos"]>>
      [] kind = "ATCObject" -> <<[field |-> "findings", name |-> "atcobject:findings"]>>
      [] kind = "WorkList" ->
            <<[field |-> "object_sets", name |-> "atcworklist:objectSets"],
              [field |-> "objects", name |-> "atcworklist:objects"]>>
      [] OTHER -> <<>>

ExpectedChildNames(inst) ==
    LET cs == SelectSeq(DeclaredChildren(inst.kind),
                  LAMBDA c : GetField(inst, c.field).t # "unset")
    IN  [k \in DOMAIN cs |-> cs[k].name]

Injected == mfeed # mdoc

\* C6: a serialized instance deserialized into a fresh target gives the
\* instance back, field by field.
C6_RoundTrip ==
    (mphase = "done" /\ morigin = "serialized" /\ ~Injected) =>
        SameValue(mparser.target, mobj)

\* C7: the run response of scenario B gives worklist_id "4711", timestamp
\* "20230101000000" and an infos field that holds an empty collection.
C7_ScenarioB ==
    (mphase = "done" /\ morigin \in {"scenarioB", "scenarioBwrapped"}) =>
        /\ GetField(mparser.target, "worklist_id") = Str("4711")
        /\ GetField(mparser.target, "timestamp") = Str("20230101000000")
        /\ GetField(mparser.target, "infos") = List("ATCInfoList", <<>>)

\* C8: a document with an unbound element between two children of the root, or
\* an unbound attribute on the root, is deserialized exactly as the document
\* without it: it fails only if that one fails, and gives the same target.
C8_UnboundIgnored ==
    (mphase \in {"done", "error"} /\ Injected) =>
        /\ (mphase = "done") = Deserialize(mdoc, NewInstance(mkind)).ok
        /\ mphase = "done" =>
              mparser.target = Deserialize(mdoc, NewInstance(mkind)).obj

C8_Witness ==
    /\ mphase = "done" /\ Injected
    /\ mkind = "RunResponse"
    /\ Len(mfeed) = Len(mdoc) + 12
    /\ mfeed[5].name = "x:unknown"
    /\ GetField(mparser.target, "worklist_id") = Str("4711")
    /\ GetField(mparser.target, "infos") = List("ATCInfoList", SampleItems("ATCInfo"))

\* C9: the child elements of a serialized instance come in the declaration
\* order of the bindings of its kind, whatever the order of population.
C9_DeclarationOrder ==
    morigin = "serialized" =>
        /\ ChildNames(mdoc) = ExpectedChildNames(mobj)
        /\ mkind = "RunRequest" =>
              /\ mdoc[1].name = "atc:run"
              /\ mdoc[1].attrs =
                    IF GetField(mobj, "max_verdicts").t = "unset" THEN <<>>
                    ELSE <<Attr("maximumVerdicts", Stringify(GetField(mobj, "max_verdicts")))>>

C9_Witness ==
    /\ morigin = "serialized"
    /\ mkind = "WorkList"
    /\ Len(mobj.slots) = 2
    /\ mobj.slots[1].field = "objects" /\ mobj.slots[1].val.slots # <<>>
    /\ mobj.slots[2].field = "object_sets" /\ mobj.slots[2].val.slots # <<>>
    /\ ChildNames(mdoc) = <<"atcworklist:objectSets", "atcworklist:objects">>

====
